---------------------------- MODULE Spec2Model ----------------------------
(***************************************************************************)
(* CommitPilot: the provider adapters (aitunnel_support.py,                *)
(* openai_support.py, auto_commit.py), their message extraction, and the   *)
(* two dispatch sites of auto_commit.py (generate_message_only and the     *)
(* commit flow of main), and setup_config with its cache.                  *)
(*                                                                         *)
(* A Python str is a sequence of one-character strings.                    *)
(***************************************************************************)
EXTENDS Integers, Sequences, FiniteSets, TLC

VARIABLES
    pc,        \* position of the run
    argv,      \* the parsed command line
    config,    \* config['DEFAULT']: key -> value, an absent key is not in the domain
    AITUNNEL_SUPPORT,      \* auto_commit.py: aitunnel_support was imported
    OPENAI_SUPPORT,        \* auto_commit.py: openai_support was imported
    OPENAI_SDK_AVAILABLE,  \* the support modules: the openai package was imported
    status,    \* what get_git_status returned
    diff,      \* what get_git_diff returned
    backend,   \* what the backend answers to the one request of the run
    calls,     \* the adapters invoked, in order
    requests,  \* the network requests sent, in order
    log,       \* the log records emitted, in order
    git,       \* the version-control commands run, in order
    commit_message,  \* the message main holds (message, test_message, commit_message)
    result,    \* how the call ended: [kind, value, why]
    CONFIG_FILE,         \* .commits/config.ini: [exists, values, mtime]
    environ,             \* os.environ: name -> value, an unset name is not in the domain
    _config_cache,       \* None, or the cached ConfigParser: [id, values]
    _config_file_mtime,  \* None, or the modification time recorded with the cache
    loads,     \* the setup_config calls made: [n, last], their number and the last one
    frames,    \* the activations of main of a --setup run, the innermost last: [args, at]
    stdin,     \* the lines input() has still to read
    repo       \* the working directory: [git_dir, src_hook, dst_hook], what exists

vars == <<pc, argv, config, AITUNNEL_SUPPORT, OPENAI_SUPPORT, OPENAI_SDK_AVAILABLE,
          status, diff, backend, calls, requests, log, git,
          commit_message, result,
          CONFIG_FILE, environ, _config_cache, _config_file_mtime, loads,
          frames, stdin, repo>>

\* the activations of main, the standard input and the hook files
setupvars == <<frames, stdin, repo>>

\* the configuration file, the environment and the configuration cache
cfgvars == <<CONFIG_FILE, environ, _config_cache, _config_file_mtime, loads>>

\* _config_cache is None
None == [id |-> 0, values |-> <<>>]

\* _config_file_mtime is None
NoTime == 0

---------------------------------------------------------------------------
(* Python str operations *)

NL == "\n"

\* str.isspace for the characters of the model
IsSpace(c) == c \in {" ", "\t", "\n", "\r"}

RECURSIVE LStrip(_)
LStrip(s) ==
    IF s = <<>> THEN s
    ELSE IF IsSpace(Head(s)) THEN LStrip(Tail(s)) ELSE s

RECURSIVE RStrip(_)
RStrip(s) ==
    IF s = <<>> THEN s
    ELSE IF IsSpace(s[Len(s)]) THEN RStrip(SubSeq(s, 1, Len(s) - 1)) ELSE s

\* str.strip()
Strip(s) == RStrip(LStrip(s))

\* str.startswith(p)
StartsWith(s, p) == Len(s) >= Len(p) /\ SubSeq(s, 1, Len(p)) = p

Min(S) == CHOOSE x \in S : \A y \in S : x <= y

\* str.split(sep) for a one-character sep: "".split(sep) is [""]
RECURSIVE Split(_, _)
Split(s, sep) ==
    LET at == {i \in 1..Len(s) : s[i] = sep}
    IN  IF at = {} THEN <<s>>
        ELSE <<SubSeq(s, 1, Min(at) - 1)>> \o Split(SubSeq(s, Min(at) + 1, Len(s)), sep)

\* str.replace(old, new): the non-overlapping occurrences, left to right
RECURSIVE Replace(_, _, _)
Replace(s, old, new) ==
    IF Len(s) < Len(old) THEN s
    ELSE IF StartsWith(s, old)
         THEN new \o Replace(SubSeq(s, Len(old) + 1, Len(s)), old, new)
         ELSE <<Head(s)>> \o Replace(Tail(s), old, new)

\* s[:n]
SliceTo(s, n) ==
    IF n >= 0 THEN SubSeq(s, 1, IF n < Len(s) THEN n ELSE Len(s))
    ELSE SubSeq(s, 1, IF Len(s) + n > 0 THEN Len(s) + n ELSE 0)

Digits == <<"0", "1", "2", "3", "4", "5", "6", "7", "8", "9">>

DigitVal(c) == (CHOOSE i \in 1..10 : Digits[i] = c) - 1

IsDigit(c) == \E i \in 1..10 : Digits[i] = c

RECURSIVE DecVal(_)
DecVal(s) == IF s = <<>> THEN 0 ELSE 10 * DecVal(SubSeq(s, 1, Len(s) - 1)) + DigitVal(s[Len(s)])

\* int(s): surrounding whitespace and one sign are accepted; anything else raises
\* ValueError
PyInt(s) ==
    LET t == Strip(s)
        signed == t # <<>> /\ Head(t) \in {"+", "-"}
        d == IF signed THEN Tail(t) ELSE t
    IN  IF d # <<>> /\ \A i \in 1..Len(d) : IsDigit(d[i])
        THEN [ok |-> TRUE, val |-> IF signed /\ Head(t) = "-" THEN 0 - DecVal(d) ELSE DecVal(d)]
        ELSE [ok |-> FALSE, val |-> 0]

UpperCase == <<"A", "B", "C", "D", "E", "F", "G", "H", "I", "J", "K", "L", "M",
               "N", "O", "P", "Q", "R", "S", "T", "U", "V", "W", "X", "Y", "Z">>

LowerCase == <<"a", "b", "c", "d", "e", "f", "g", "h", "i", "j", "k", "l", "m",
               "n", "o", "p", "q", "r", "s", "t", "u", "v", "w", "x", "y", "z">>

LowerChar(c) ==
    IF \E i \in 1..26 : UpperCase[i] = c
    THEN LowerCase[CHOOSE i \in 1..26 : UpperCase[i] = c]
    ELSE c

\* str.lower()
Lower(s) == [i \in 1..Len(s) |-> LowerChar(s[i])]

\* mapping.get(key, default)
Get(c, key, default) == IF key \in DOMAIN c THEN c[key] ELSE default

---------------------------------------------------------------------------
(* Constants of the program *)

DEFAULT_COMMIT_MESSAGE ==
    <<"c", "h", "o", "r", "e", ":", " ", "a", "u", "t", "o", "m", "a", "t", "i", "c", " ",
      "c", "h", "a", "n", "g", "e", "s", " ", "c", "o", "m", "m", "i", "t">>

COMMIT_PREFIXES ==
    { <<"f", "e", "a", "t">>, <<"f", "i", "x">>, <<"d", "o", "c", "s">>,
      <<"s", "t", "y", "l", "e">>, <<"r", "e", "f", "a", "c", "t", "o", "r">>,
      <<"t", "e", "s", "t">>, <<"c", "h", "o", "r", "e">> }

\* the backtick character
BACKTICK == "bt"

\* the code-fence marker: three backticks
FENCE == <<BACKTICK, BACKTICK, BACKTICK>>

\* "</s>"
EOS == <<"<", "/", "s", ">">>

\* "\n... (truncated)"
TRUNCATED == <<"\n", ".", ".", ".", " ", "(", "t", "r", "u", "n", "c", "a", "t", "e", "d", ")">>

\* the '5000' every adapter reads max_diff_size with
DEFAULT_MAX_DIFF_SIZE == <<"5", "0", "0", "0">>

\* the diff[:500] of the Hugging Face prompt
PROMPT_DIFF_CHARS == 500

AITUNNEL_BASE_URL == <<"a", "i", "t", "u", "n", "n", "e", "l", ".", "r", "u">>

GPT_4_1 == <<"g", "p", "t", "-", "4", ".", "1">>

GPT_4O_MINI == <<"g", "p", "t", "-", "4", "o", "-", "m", "i", "n", "i">>

GPT_3_5_TURBO == <<"g", "p", "t", "-", "3", ".", "5", "-", "t", "u", "r", "b", "o">>

MIXTRAL == <<"M", "i", "x", "t", "r", "a", "l">>

HasPrefix(line) == \E p \in COMMIT_PREFIXES : StartsWith(line, p)

---------------------------------------------------------------------------
(* The message extraction of each adapter *)

\* extract_aitunnel with the standard message as its last resort
extract_aitunnel_fallback(content) ==
    LET message == Strip(content)
        lines == Split(message, NL)
        typed == {i \in 1..Len(lines) : HasPrefix(Strip(lines[i]))}
        plain == {i \in 1..Len(lines) :
                     Strip(lines[i]) # <<>> /\ ~StartsWith(Strip(lines[i]), FENCE)}
    IN  IF typed # {} THEN Strip(lines[Min(typed)])
        ELSE IF plain # {} THEN Strip(lines[Min(plain)])
        ELSE DEFAULT_COMMIT_MESSAGE

\* extract_aitunnel returning the line it found as it stands, not stripped
extract_aitunnel_unstripped(content) ==
    LET message == Strip(content)
        lines == Split(message, NL)
        typed == {i \in 1..Len(lines) : HasPrefix(Strip(lines[i]))}
        plain == {i \in 1..Len(lines) :
                     Strip(lines[i]) # <<>> /\ ~StartsWith(Strip(lines[i]), FENCE)}
    IN  IF typed # {} THEN lines[Min(typed)]
        ELSE IF plain # {} THEN lines[Min(plain)]
        ELSE message

\* aitunnel_support.py: from the content of the first choice to the returned message
extract_aitunnel(content) ==
    LET message == Strip(content)
        lines == Split(message, NL)
        typed == {i \in 1..Len(lines) : HasPrefix(Strip(lines[i]))}
        plain == {i \in 1..Len(lines) :
                     Strip(lines[i]) # <<>> /\ ~StartsWith(Strip(lines[i]), FENCE)}
    IN  IF typed # {} THEN Strip(lines[Min(typed)])
        ELSE IF plain # {} THEN Strip(lines[Min(plain)])
        ELSE message

\* extract_openai returning the whole stripped text when no line is typed
extract_openai_whole(content) ==
    LET message == Strip(content)
        lines == Split(message, NL)
        typed == {i \in 1..Len(lines) : HasPrefix(Strip(lines[i]))}
    IN  IF typed # {} THEN Strip(lines[Min(typed)]) ELSE message

\* extract_openai without its first loop
extract_openai_untyped(content) ==
    LET message == Strip(content)
        lines == Split(message, NL)
        plain == {i \in 1..Len(lines) :
                     Strip(lines[i]) # <<>> /\ ~StartsWith(Strip(lines[i]), FENCE)}
    IN  IF plain # {} THEN Strip(lines[Min(plain)]) ELSE message

\* openai_support.py: from the content of the first choice to the returned message
extract_openai(content) ==
    LET message == Strip(content)
        lines == Split(message, NL)
        typed == {i \in 1..Len(lines) : HasPrefix(Strip(lines[i]))}
        plain == {i \in 1..Len(lines) :
                     Strip(lines[i]) # <<>> /\ ~StartsWith(Strip(lines[i]), FENCE)}
    IN  IF typed # {} THEN Strip(lines[Min(typed)])
        ELSE IF plain # {} THEN Strip(lines[Min(plain)])
        ELSE message

\* The generated text with the "</s>" markers removed, as the Hugging Face adapter
\* reads it
hf_clean(generated_text) == Strip(Replace(Strip(generated_text), EOS, <<>>))

\* auto_commit.py: from generated_text to the returned message; found is FALSE when
\* no message is extracted and the adapter goes on to its standard message
extract_huggingface(generated_text) ==
    LET message == hf_clean(generated_text)
        lines == Split(message, NL)
        typed == {i \in 1..Len(lines) : Strip(lines[i]) # <<>> /\ HasPrefix(Strip(lines[i]))}
        nonempty == {i \in 1..Len(lines) : Strip(lines[i]) # <<>>}
    IN  IF typed # {} THEN [found |-> TRUE, value |-> Strip(lines[Min(typed)])]
        ELSE IF nonempty # {} THEN [found |-> TRUE, value |-> Strip(lines[Min(nonempty)])]
        ELSE IF message # <<>> /\ \A i \in 1..Len(message) : message[i] # NL
             THEN [found |-> TRUE, value |-> message]
        ELSE [found |-> FALSE, value |-> DEFAULT_COMMIT_MESSAGE]

---------------------------------------------------------------------------
(* The adapters.  Each yields [result, requests, log]: how the call ended,   *)
(* the network requests it sent and the log records it emitted.              *)

Returned(v) == [kind |-> "return", value |-> v, why |-> ""]

\* sys.exit(code)
Exited(code) == [kind |-> "exit", value |-> <<>>, why |-> code]

\* an exception that leaves the function
Raised(exc) == [kind |-> "raise", value |-> <<>>, why |-> exc]

Logged(level, what) == [level |-> level, what |-> what]

\* the backend outcomes under which the request yields no response text
FailureKinds == {"timeout", "network", "http", "malformed", "missing", "not_list"}

\* limit_diff comparing with >= and cutting one character short
limit_diff_off_by_one(d, max_size) ==
    IF Len(d) >= max_size THEN SliceTo(d, max_size - 1) \o TRUNCATED ELSE d

\* if len(diff) > max_size: diff = diff[:max_size] + "\n... (truncated)"
limit_diff(d, max_size) ==
    IF Len(d) > max_size THEN SliceTo(d, max_size) \o TRUNCATED ELSE d

generate_commit_message_with_aitunnel(d, st, cfg, sdk, be) ==
    LET token == Get(cfg, "aitunnel_token", <<>>)
        base_url == Get(cfg, "aitunnel_base_url", AITUNNEL_BASE_URL)
        model == Get(cfg, "aitunnel_model", GPT_4_1)
        max_size == PyInt(Get(cfg, "max_diff_size", DEFAULT_MAX_DIFF_SIZE))
        req == [to |-> "aitunnel", via |-> IF sdk THEN "sdk" ELSE "http",
                base_url |-> base_url, model |-> model, status |-> st,
                diff |-> limit_diff(d, max_size.val),
                timeout |-> IF sdk THEN 0 ELSE 30]
    IN  IF token = <<>>
        THEN [result |-> Returned(DEFAULT_COMMIT_MESSAGE), requests |-> <<>>,
              log |-> <<Logged("error", "no token")>>]
        ELSE IF ~max_size.ok
        THEN [result |-> Raised("ValueError"), requests |-> <<>>, log |-> <<>>]
        ELSE IF be.kind = "ok"
        THEN [result |-> Returned(extract_aitunnel(be.text)), requests |-> <<req>>,
              log |-> <<>>]
        ELSE [result |-> Returned(DEFAULT_COMMIT_MESSAGE), requests |-> <<req>>,
              log |-> <<Logged("error", be.kind)>>]

generate_commit_message_with_openai(d, st, cfg, sdk, be) ==
    LET token == Get(cfg, "openai_token", <<>>)
        max_size == PyInt(Get(cfg, "max_diff_size", DEFAULT_MAX_DIFF_SIZE))
        req == [to |-> "openai", via |-> IF sdk THEN "sdk" ELSE "http",
                base_url |-> <<>>,
                model |-> IF sdk THEN GPT_4O_MINI ELSE GPT_3_5_TURBO, status |-> st,
                diff |-> limit_diff(d, max_size.val),
                timeout |-> IF sdk THEN 0 ELSE 10]
    IN  IF token = <<>>
        THEN [result |-> Returned(DEFAULT_COMMIT_MESSAGE), requests |-> <<>>,
              log |-> <<Logged("error", "no token")>>]
        ELSE IF ~max_size.ok
        THEN [result |-> Raised("ValueError"), requests |-> <<>>, log |-> <<>>]
        ELSE IF be.kind = "ok"
        THEN [result |-> Returned(extract_openai(be.text)), requests |-> <<req>>,
              log |-> <<>>]
        ELSE [result |-> Returned(DEFAULT_COMMIT_MESSAGE), requests |-> <<req>>,
              log |-> <<Logged("error", be.kind)>>]

\* av: the command line; the adapter looks for "--test" and "--get-message" in sys.argv
generate_commit_message_with_huggingface(d, st, cfg, av, be) ==
    LET token == Get(cfg, "huggingface_token", <<>>)
        max_size == PyInt(Get(cfg, "max_diff_size", DEFAULT_MAX_DIFF_SIZE))
        req == [to |-> "huggingface", via |-> "http", base_url |-> <<>>,
                model |-> MIXTRAL, status |-> st,
                diff |-> SliceTo(limit_diff(d, max_size.val), PROMPT_DIFF_CHARS),
                timeout |-> 0]
        text == IF be.kind = "ok" THEN be.text ELSE <<>>
        got == extract_huggingface(text)
    IN  IF token = <<>>
        THEN IF av.test \/ av.get_message
             THEN [result |-> Returned(DEFAULT_COMMIT_MESSAGE), requests |-> <<>>,
                   log |-> <<Logged("error", "no token")>>]
             ELSE [result |-> Exited("1"), requests |-> <<>>,
                   log |-> <<Logged("error", "no token")>>]
        ELSE IF ~max_size.ok
        THEN [result |-> Raised("ValueError"), requests |-> <<>>, log |-> <<>>]
        ELSE IF be.kind \in {"ok", "missing"} /\ got.found
        THEN [result |-> Returned(got.value), requests |-> <<req>>, log |-> <<>>]
        ELSE IF be.kind \in {"ok", "missing", "not_list"}
        THEN [result |-> Returned(DEFAULT_COMMIT_MESSAGE), requests |-> <<req>>,
              log |-> <<Logged("warning", "no message")>>]
        ELSE [result |-> Returned(DEFAULT_COMMIT_MESSAGE), requests |-> <<req>>,
              log |-> <<Logged("error", be.kind)>>]

---------------------------------------------------------------------------
(* Inputs *)

\* the lines a response text is made of
MaxLines == 3

LinePieces ==
    { <<>>,
      <<" ">>,
      <<"f", "i", "x", ":", " ", "a">>,
      <<" ", "f", "e", "a", "t", "\t">>,
      FENCE,
      FENCE \o <<"p", "y">>,
      <<"a", "b">>,
      <<" ", "a", "\r">>,
      EOS,
      EOS \o <<"f", "i", "x">>,
      <<"f", "i">> \o EOS \o <<"x">>,
      <<BACKTICK>> \o EOS \o <<BACKTICK, BACKTICK>>,
      <<"a">> \o EOS }

RECURSIVE JoinLines(_)
JoinLines(ls) ==
    IF Len(ls) = 1 THEN ls[1] ELSE ls[1] \o <<NL>> \o JoinLines(Tail(ls))

\* every text of one to MaxLines lines
Texts == UNION { {JoinLines(ls) : ls \in [1..n -> LinePieces]} : n \in 1..MaxLines }

\* "feat(core): add new feature"
FEAT_CORE ==
    <<"f", "e", "a", "t", "(", "c", "o", "r", "e", ")", ":", " ", "a", "d", "d", " ",
      "n", "e", "w", " ", "f", "e", "a", "t", "u", "r", "e">>

SampleTexts ==
    { FEAT_CORE, <<>>, FENCE \o <<NL, "a", "b", NL>> \o FENCE,
      <<"a", "b", NL, " ", "f", "i", "x", ":", " ", "a">> }

Outcomes(texts) ==
    [kind : {"ok"}, text : texts] \cup [kind : FailureKinds, text : {<<>>}]

\* a diff of n characters, each position recognisable
MkDiff(n) == [i \in 1..n |-> IF i % 3 = 1 THEN "+" ELSE IF i % 3 = 2 THEN "a" ELSE "b"]

Diffs == {MkDiff(n) : n \in {0, 1, 3, 520, 5001}} \cup {MkDiff(2) \o TRUNCATED}

\* "M f"
SomeStatus == <<"M", " ", "f">>

TOKEN == <<"s", "k">>

MaxDiffSizes ==
    { <<"0">>, <<"2">>, <<"5", "1", "0">>, <<"7", "0", "0", "0">>, <<" ", "3", " ">>,
      <<"-", "1">>, <<"a", "b", "c">>, <<>> }

\* the three token keys, all absent, all empty or all set
TokenConfigs ==
    { <<>>,
      [k \in {"aitunnel_token", "openai_token", "huggingface_token"} |-> <<>>],
      [k \in {"aitunnel_token", "openai_token", "huggingface_token"} |-> TOKEN] }

\* a mapping with one more key
With(c, key, value) == [k \in DOMAIN c \cup {key} |-> IF k = key THEN value ELSE c[k]]

\* a model identifier other than the defaults
CUSTOM_MODEL == <<"m">>

\* the token configurations with a model identifier set for each provider
ModelConfigs ==
    { With(With(With(c, "aitunnel_model", CUSTOM_MODEL), "openai_model", CUSTOM_MODEL),
           "huggingface_model", CUSTOM_MODEL) : c \in TokenConfigs }

\* the command line without arguments; <<>> is an option not given
NoArgs ==
    [message |-> <<>>, branch |-> <<>>, commit_only |-> FALSE, provider |-> <<>>,
     get_message |-> FALSE, test |-> FALSE, version |-> FALSE,
     setup |-> FALSE, setup_hooks |-> FALSE]

---------------------------------------------------------------------------
(* setup_config, the configuration file and the environment *)

BRANCH_MAIN == <<"m", "a", "i", "n">>

\* the configuration file is not there
NoFile == [exists |-> FALSE, values |-> <<>>, mtime |-> NoTime]

\* the configuration file with its DEFAULT section and its modification time
File(values, mtime) == [exists |-> TRUE, values |-> values, mtime |-> mtime]

\* config["DEFAULT"] = {...}: what setup_config writes when there is no file
DEFAULT_CONFIG ==
    [k \in {"api_provider", "aitunnel_token", "aitunnel_base_url", "aitunnel_model",
            "huggingface_token", "openai_token", "branch", "max_diff_size"} |->
        CASE k = "api_provider" -> <<"a", "i", "t", "u", "n", "n", "e", "l">>
          [] k = "aitunnel_base_url" -> AITUNNEL_BASE_URL
          [] k = "aitunnel_model" -> GPT_4_1
          [] k = "branch" -> BRANCH_MAIN
          [] k = "max_diff_size" -> DEFAULT_MAX_DIFF_SIZE
          [] OTHER -> <<>>]

\* the environment variable that overrides a key, "" for a key without one
EnvName(key) ==
    CASE key = "aitunnel_token" -> "AI_TUNNEL"
      [] key = "aitunnel_base_url" -> "AITUNNEL_BASE_URL"
      [] key = "aitunnel_model" -> "AITUNNEL_MODEL"
      [] OTHER -> ""

ENV_KEYS == {"aitunnel_token", "aitunnel_base_url", "aitunnel_model"}

\* env_x = os.getenv(NAME); if env_x: ...
Getenv(env, name) == IF name \in DOMAIN env THEN env[name] ELSE <<>>

\* the three "if env_x: config['DEFAULT'][key] = env_x" of setup_config
Override(values, env) ==
    LET set == {k \in ENV_KEYS : Getenv(env, EnvName(k)) # <<>>}
    IN  [k \in DOMAIN values \cup set |->
            IF k \in set THEN env[EnvName(k)] ELSE values[k]]

\* one setup_config call: its argument, the file as its cache check found it, the
\* environment and the cache at the call, and the ConfigParser it returned
Load(force_reload, file, env, cache, mtime, returned) ==
    [force_reload |-> force_reload, file |-> file, environ |-> env, cache |-> cache,
     mtime |-> mtime, returned |-> returned]

\* a working directory without .git, the hook script not beside auto_commit.py
NoRepo == [git_dir |-> FALSE, src_hook |-> FALSE, dst_hook |-> FALSE]

\* no call yet
NoLoads == [n |-> 0, last |-> Load(FALSE, NoFile, <<>>, None, NoTime, None)]

\* setup_config returning the cache whatever the modification time of the file
setup_config_any_mtime(force_reload, f, env, cache, mtime, id, now, gone1, gone2) ==
    LET checked == ~force_reload /\ cache # None
        raised1 == checked /\ f.exists /\ gone1
        f1 == IF raised1 THEN NoFile ELSE f
        created == ~f1.exists
        f2 == IF created THEN File(DEFAULT_CONFIG, now) ELSE f1
        cfg == [id |-> id, values |-> Override(f2.values, env)]
        f3 == IF gone2 THEN NoFile ELSE f2
    IN  IF checked /\ f.exists /\ ~gone1
        THEN [returned |-> cache, cache |-> cache, mtime |-> mtime, file |-> f,
              found |-> f, log |-> <<>>]
        ELSE IF checked /\ ~f.exists /\ mtime = NoTime
        THEN [returned |-> cache, cache |-> cache, mtime |-> mtime, file |-> f,
              found |-> f, log |-> <<>>]
        ELSE [returned |-> cfg, cache |-> cfg,
              mtime |-> IF gone2 THEN NoTime ELSE f2.mtime,
              file |-> f3,
              found |-> f1,
              log |-> IF created
                      THEN <<Logged("info", "config file created"),
                             Logged("warning", "add a token")>>
                      ELSE <<>>]

\* setup_config(force_reload) with f the file, env the environment, cache and mtime
\* the module's cache, id the identity of a ConfigParser made by this call and now the
\* modification time of a file it writes; gone1 and gone2: the file disappears
\* between exists() and stat() (OSError) at the cache check and at the end.  Yields
\* [returned, cache, mtime, file, found, log], found being the file as the cache check
\* found it.
setup_config(force_reload, f, env, cache, mtime, id, now, gone1, gone2) ==
    LET checked == ~force_reload /\ cache # None
        raised1 == checked /\ f.exists /\ gone1
        f1 == IF raised1 THEN NoFile ELSE f
        created == ~f1.exists
        f2 == IF created THEN File(DEFAULT_CONFIG, now) ELSE f1
        cfg == [id |-> id, values |-> Override(f2.values, env)]
        f3 == IF gone2 THEN NoFile ELSE f2
    IN  IF checked /\ f.exists /\ ~gone1 /\ f.mtime = mtime
        THEN [returned |-> cache, cache |-> cache, mtime |-> mtime, file |-> f,
              found |-> f, log |-> <<>>]
        ELSE IF checked /\ ~f.exists /\ mtime = NoTime
        THEN [returned |-> cache, cache |-> cache, mtime |-> mtime, file |-> f,
              found |-> f, log |-> <<>>]
        ELSE [returned |-> cfg, cache |-> cfg,
              mtime |-> IF gone2 THEN NoTime ELSE f2.mtime,
              file |-> f3,
              found |-> f1,
              log |-> IF created
                      THEN <<Logged("info", "config file created"),
                             Logged("warning", "add a token")>>
                      ELSE <<>>]

-----
(* The two dispatch sites of auto_commit.py *)

AITUNNEL == <<"a", "i", "t", "u", "n", "n", "e", "l">>

OPENAI == <<"o", "p", "e", "n", "a", "i">>

HUGGINGFACE == <<"h", "u", "g", "g", "i", "n", "g", "f", "a", "c", "e">>

\* fallback_warning that never warns
fallback_warning_silent(provider, supA, supO) == <<>>

\* the warning of the else branch, if any
fallback_warning(provider, supA, supO) ==
    IF Lower(provider) = AITUNNEL /\ ~supA THEN <<Logged("warning", "aitunnel not installed")>>
    ELSE IF Lower(provider) = OPENAI /\ ~supO THEN <<Logged("warning", "openai not installed")>>
    ELSE <<>>

\* an adapter's [result, requests, log] with the adapters invoked and the warnings
\* logged before it
Invoked(name, warnings, r) ==
    [result |-> r.result, requests |-> r.requests, log |-> warnings \o r.log,
     calls |-> <<name>>]

\* generate_message_only, from "provider = ..." on
dispatch_message_only(d, st, cfg, av, supA, supO, sdk, be) ==
    LET provider == Get(cfg, "api_provider", AITUNNEL)
    IN  IF Lower(provider) = AITUNNEL /\ supA
        THEN Invoked("aitunnel", <<>>,
                     generate_commit_message_with_aitunnel(d, st, cfg, sdk, be))
        ELSE IF Lower(provider) = OPENAI /\ supO
        THEN Invoked("openai", <<>>,
                     generate_commit_message_with_openai(d, st, cfg, sdk, be))
        ELSE Invoked("huggingface", fallback_warning(provider, supA, supO),
                     generate_commit_message_with_huggingface(d, st, cfg, av, be))

\* dispatch_main comparing the provider name as written, without lower()
dispatch_main_case_sensitive(d, st, cfg, av, supA, supO, sdk, be) ==
    LET provider == IF av.provider # <<>> THEN av.provider
                    ELSE Get(cfg, "api_provider", AITUNNEL)
    IN  IF provider = AITUNNEL /\ supA
        THEN Invoked("aitunnel", <<>>,
                     generate_commit_message_with_aitunnel(d, st, cfg, sdk, be))
        ELSE IF provider = OPENAI /\ supO
        THEN Invoked("openai", <<>>,
                     generate_commit_message_with_openai(d, st, cfg, sdk, be))
        ELSE Invoked("huggingface", fallback_warning(provider, supA, supO),
                     generate_commit_message_with_huggingface(d, st, cfg, av, be))

\* main, the else branch of "if args.message"
dispatch_main(d, st, cfg, av, supA, supO, sdk, be) ==
    LET provider == IF av.provider # <<>> THEN av.provider
                    ELSE Get(cfg, "api_provider", AITUNNEL)
    IN  IF Lower(provider) = AITUNNEL /\ supA
        THEN Invoked("aitunnel", <<>>,
                     generate_commit_message_with_aitunnel(d, st, cfg, sdk, be))
        ELSE IF Lower(provider) = OPENAI /\ supO
        THEN Invoked("openai", <<>>,
                     generate_commit_message_with_openai(d, st, cfg, sdk, be))
        ELSE Invoked("huggingface", fallback_warning(provider, supA, supO),
                     generate_commit_message_with_huggingface(d, st, cfg, av, be))

\* one version-control command: what was run, its argument, how it ended
GitRun(cmd, arg, rc) == [cmd |-> cmd, arg |-> arg, rc |-> rc]

\* Nothing invoked: the call ends with result r and the log records l
Direct(r, l) == [result |-> r, requests |-> <<>>, log |-> l, calls |-> <<>>]

\* generate_message_only without "if not diff"
generate_message_only_any_diff(cfg, av, supA, supO, sdk, gs, gd, be) ==
    IF gs.kind = "exception"
    THEN [out |-> Direct(Exited("1"), <<Logged("error", "git status")>>),
          git |-> <<GitRun("status", <<>>, gs.kind)>>, status |-> <<>>, diff |-> <<>>]
    ELSE IF gs.text = <<>>
    THEN [out |-> Direct(Returned(DEFAULT_COMMIT_MESSAGE), <<Logged("warning", "no changes")>>),
          git |-> <<GitRun("status", <<>>, gs.kind)>>, status |-> gs.text, diff |-> <<>>]
    ELSE IF gd.kind = "exception"
    THEN [out |-> Direct(Exited("1"), <<Logged("error", "git diff")>>),
          git |-> <<GitRun("status", <<>>, gs.kind), GitRun("diff", <<>>, gd.kind)>>, status |-> gs.text, diff |-> <<>>]
    ELSE [out |-> dispatch_message_only(gd.text, gs.text, cfg, av, supA, supO, sdk, be),
          git |-> <<GitRun("status", <<>>, gs.kind), GitRun("diff", <<>>, gd.kind)>>, status |-> gs.text, diff |-> gd.text]

\* generate_message_only; gs and gd are what get_git_status and get_git_diff do
\* ([kind, text], kind "exception" when the subprocess call raises).  Yields
\* [result, requests, log, calls] and the git commands run.
generate_message_only(cfg, av, supA, supO, sdk, gs, gd, be) ==
    IF gs.kind = "exception"
    THEN [out |-> Direct(Exited("1"), <<Logged("error", "git status")>>),
          git |-> <<GitRun("status", <<>>, gs.kind)>>, status |-> <<>>, diff |-> <<>>]
    ELSE IF gs.text = <<>>
    THEN [out |-> Direct(Returned(DEFAULT_COMMIT_MESSAGE), <<Logged("warning", "no changes")>>),
          git |-> <<GitRun("status", <<>>, gs.kind)>>, status |-> gs.text, diff |-> <<>>]
    ELSE IF gd.kind = "exception"
    THEN [out |-> Direct(Exited("1"), <<Logged("error", "git diff")>>),
          git |-> <<GitRun("status", <<>>, gs.kind), GitRun("diff", <<>>, gd.kind)>>, status |-> gs.text, diff |-> <<>>]
    ELSE IF gd.text = <<>>
    THEN [out |-> Direct(Returned(DEFAULT_COMMIT_MESSAGE), <<Logged("warning", "empty diff")>>),
          git |-> <<GitRun("status", <<>>, gs.kind), GitRun("diff", <<>>, gd.kind)>>, status |-> gs.text, diff |-> gd.text]
    ELSE [out |-> dispatch_message_only(gd.text, gs.text, cfg, av, supA, supO, sdk, be),
          git |-> <<GitRun("status", <<>>, gs.kind), GitRun("diff", <<>>, gd.kind)>>, status |-> gs.text, diff |-> gd.text]

---------------------------------------------------------------------------
(* A direct call of one adapter *)

Ended(r, name) ==
    /\ UNCHANGED <<cfgvars, setupvars>>
    /\ pc' = "done"
    /\ calls' = Append(calls, name)
    /\ requests' = requests \o r.requests
    /\ log' = log \o r.log
    /\ result' = r.result
    /\ UNCHANGED <<argv, config, AITUNNEL_SUPPORT, OPENAI_SUPPORT, OPENAI_SDK_AVAILABLE,
                   status, diff, backend, git, commit_message>>

CallAitunnel ==
    /\ pc = "call"
    /\ Ended(generate_commit_message_with_aitunnel(
                 diff, status, config, OPENAI_SDK_AVAILABLE, backend), "aitunnel")

CallOpenai ==
    /\ pc = "call"
    /\ Ended(generate_commit_message_with_openai(
                 diff, status, config, OPENAI_SDK_AVAILABLE, backend), "openai")

CallHuggingface ==
    /\ pc = "call"
    /\ Ended(generate_commit_message_with_huggingface(
                 diff, status, config, argv, backend), "huggingface")

NextAdapter == CallAitunnel \/ CallOpenai \/ CallHuggingface

InitCall ==
    /\ pc = "call"
    /\ AITUNNEL_SUPPORT = TRUE
    /\ OPENAI_SUPPORT = TRUE
    /\ OPENAI_SDK_AVAILABLE \in BOOLEAN
    /\ calls = <<>>
    /\ requests = <<>>
    /\ log = <<>>
    /\ git = <<>>
    /\ commit_message = <<>>
    /\ result = [kind |-> "none", value |-> <<>>, why |-> ""]
    /\ CONFIG_FILE = NoFile
    /\ environ = <<>>
    /\ _config_cache = None
    /\ _config_file_mtime = NoTime
    /\ loads = NoLoads
    /\ frames = <<>>
    /\ stdin = <<>>
    /\ repo = NoRepo

\* an adapter with its token set, answered with any text
InitExtract ==
    /\ InitCall
    /\ argv = NoArgs
    /\ config = [k \in {"aitunnel_token", "openai_token", "huggingface_token"} |-> TOKEN]
    /\ status = SomeStatus
    /\ diff = MkDiff(3)
    /\ backend \in Outcomes(Texts)

SpecExtract == InitExtract /\ [][NextAdapter]_vars

\* an adapter under any configuration, diff, command line and backend outcome
InitAdapter ==
    /\ InitCall
    /\ argv \in {NoArgs, [NoArgs EXCEPT !.test = TRUE], [NoArgs EXCEPT !.get_message = TRUE]}
    /\ config \in TokenConfigs \cup ModelConfigs
                 \cup {With(c, "max_diff_size", m) : c \in TokenConfigs, m \in MaxDiffSizes}
    /\ status = SomeStatus
    /\ diff \in Diffs
    /\ backend \in Outcomes(SampleTexts)

SpecAdapter == InitAdapter /\ [][NextAdapter]_vars

---------------------------------------------------------------------------
(* main *)

\* "feat: x", a message given with -m
CUSTOM_MESSAGE == <<"f", "e", "a", "t", ":", " ", "x">>

BRANCH_DEV == <<"d", "e", "v">>

\* the values of -p (argparse choices), <<>> when not given
ProviderFlags == {<<>>, AITUNNEL, OPENAI, HUGGINGFACE}

\* the values of api_provider in the configuration file
ProviderNames ==
    { AITUNNEL, <<"A", "I", "T", "u", "n", "n", "e", "l">>,
      OPENAI, <<"O", "p", "e", "n", "A", "I">>,
      HUGGINGFACE, <<"H", "u", "g", "g", "i", "n", "g", "F", "a", "c", "e">>,
      <<"g", "p", "t">> }

Argvs ==
    {[NoArgs EXCEPT !.version = TRUE]}
    \cup {[NoArgs EXCEPT !.get_message = TRUE, !.provider = p] : p \in ProviderFlags}
    \cup {[NoArgs EXCEPT !.test = TRUE, !.provider = p] : p \in ProviderFlags}
    \cup {[NoArgs EXCEPT !.provider = p, !.message = m, !.commit_only = c, !.branch = b] :
             p \in ProviderFlags, m \in {<<>>, CUSTOM_MESSAGE}, c \in BOOLEAN,
             b \in {<<>>, BRANCH_DEV}}

AllTokens(t) == [k \in {"aitunnel_token", "openai_token", "huggingface_token"} |-> t]

Configs ==
    LET tokens == {AllTokens(<<>>), AllTokens(TOKEN)}
        branched == tokens \cup {With(c, "branch", BRANCH_MAIN) : c \in tokens}
    IN  branched \cup {With(c, "api_provider", n) : c \in branched, n \in ProviderNames}

\* what a git query does: its (stripped) output, or the subprocess call raises
GitOutputs(texts) == [kind : {"ok"}, text : texts] \cup [kind : {"exception"}, text : {<<>>}]

MainOutcomes == [kind : {"ok"}, text : {FEAT_CORE, <<>>}] \cup [kind : {"timeout"}, text : {<<>>}]

\* main returns
Finished(how) == [kind |-> "return", value |-> <<>>, why |-> how]

Init ==
    /\ pc = "main"
    /\ argv \in Argvs
    /\ config \in Configs
    /\ AITUNNEL_SUPPORT \in BOOLEAN
    /\ OPENAI_SUPPORT \in BOOLEAN
    /\ OPENAI_SDK_AVAILABLE \in BOOLEAN
    /\ status = <<>>
    /\ diff = <<>>
    /\ backend = [kind |-> "none", text |-> <<>>]
    /\ calls = <<>>
    /\ requests = <<>>
    /\ log = <<>>
    /\ git = <<>>
    /\ commit_message = <<>>
    /\ result = [kind |-> "none", value |-> <<>>, why |-> ""]
    \* config = setup_config(): the first call of the process, the file read as it is
    /\ CONFIG_FILE = File(config, 1)
    /\ environ = <<>>
    /\ _config_cache = [id |-> 1, values |-> config]
    /\ _config_file_mtime = 1
    /\ loads = [n |-> 1, last |-> Load(FALSE, CONFIG_FILE, environ, None, NoTime,
                                       _config_cache)]
    /\ frames = <<>>
    /\ stdin = <<>>
    /\ repo = NoRepo

\* if args.version: print, return
MainVersion ==
    /\ UNCHANGED <<cfgvars, setupvars>>
    /\ pc = "main"
    /\ argv.version
    /\ pc' = "done"
    /\ result' = Finished("version")
    /\ UNCHANGED <<argv, config, AITUNNEL_SUPPORT, OPENAI_SUPPORT, OPENAI_SDK_AVAILABLE,
                   status, diff, backend, calls, requests, log, git, commit_message>>

\* the effects of one generate_message_only call that ends main's branch
MessageOnly(g, be) ==
    /\ pc' = "done"
    /\ status' = g.status
    /\ diff' = g.diff
    /\ git' = git \o g.git
    /\ calls' = calls \o g.out.calls
    /\ requests' = requests \o g.out.requests
    /\ log' = log \o g.out.log
    /\ backend' = IF g.out.requests # <<>> THEN be ELSE backend
    /\ commit_message' = IF g.out.result.kind = "return" THEN g.out.result.value
                         ELSE commit_message
    /\ result' = IF g.out.result.kind # "return" THEN g.out.result
                 ELSE IF g.out.result.value # <<>>
                         /\ g.out.result.value # DEFAULT_COMMIT_MESSAGE
                      THEN Finished("message printed")
                 ELSE Finished("not generated")
    /\ UNCHANGED <<argv, config, AITUNNEL_SUPPORT, OPENAI_SUPPORT, OPENAI_SDK_AVAILABLE>>

\* if args.get_message: message = generate_message_only(config); print; return
MainGetMessage ==
    /\ UNCHANGED <<cfgvars, setupvars>>
    /\ pc = "main"
    /\ ~argv.version
    /\ argv.get_message
    /\ \E gs \in GitOutputs({<<>>, SomeStatus}), gd \in GitOutputs({<<>>, MkDiff(3)}),
          be \in MainOutcomes :
          MessageOnly(generate_message_only(config, argv, AITUNNEL_SUPPORT, OPENAI_SUPPORT,
                                            OPENAI_SDK_AVAILABLE, gs, gd, be), be)

\* if args.test: the token report, config['DEFAULT']['branch'], then
\* test_message = generate_message_only(config)
MainTest ==
    /\ UNCHANGED <<cfgvars, setupvars>>
    /\ pc = "main"
    /\ ~argv.version
    /\ ~argv.get_message
    /\ argv.test
    /\ IF "branch" \notin DOMAIN config
       THEN /\ pc' = "done"
            /\ result' = Raised("KeyError")
            /\ UNCHANGED <<argv, config, AITUNNEL_SUPPORT, OPENAI_SUPPORT,
                           OPENAI_SDK_AVAILABLE, status, diff, backend, calls, requests,
                           log, git, commit_message>>
       ELSE \E gs \in GitOutputs({<<>>, SomeStatus}), gd \in GitOutputs({<<>>, MkDiff(3)}),
               be \in MainOutcomes :
               MessageOnly(generate_message_only(config, argv, AITUNNEL_SUPPORT,
                                                 OPENAI_SUPPORT, OPENAI_SDK_AVAILABLE,
                                                 gs, gd, be), be)

CommitFlow ==
    ~argv.version /\ ~argv.get_message /\ ~argv.test /\ ~argv.setup_hooks /\ ~argv.setup

\* status = get_git_status(); if not status: return
CommitStatus ==
    /\ UNCHANGED <<cfgvars, setupvars>>
    /\ pc = "main"
    /\ CommitFlow
    /\ \E gs \in GitOutputs({<<>>, SomeStatus}) :
          /\ git' = Append(git, GitRun("status", <<>>, gs.kind))
          /\ status' = gs.text
          /\ log' = IF gs.kind = "exception" THEN Append(log, Logged("error", "git status"))
                    ELSE log
          /\ pc' = IF gs.kind = "ok" /\ gs.text # <<>> THEN "add" ELSE "done"
          /\ result' = IF gs.kind = "exception" THEN Exited("1")
                       ELSE IF gs.text = <<>> THEN Finished("no changes")
                       ELSE result
    /\ UNCHANGED <<argv, config, AITUNNEL_SUPPORT, OPENAI_SUPPORT, OPENAI_SDK_AVAILABLE,
                   diff, backend, calls, requests, commit_message>>

\* git_add_all() followed at once by the commit
CommitAdd_then_commit ==
    /\ UNCHANGED <<cfgvars, setupvars>>
    /\ pc = "add"
    /\ \E rc \in {"ok", "exception"} :
          /\ git' = Append(git, GitRun("add", <<>>, rc))
          /\ log' = IF rc = "exception" THEN Append(log, Logged("error", "git add")) ELSE log
          /\ pc' = IF rc = "ok" THEN "commit" ELSE "done"
          /\ result' = IF rc = "ok" THEN result ELSE Exited("1")
    /\ UNCHANGED <<argv, config, AITUNNEL_SUPPORT, OPENAI_SUPPORT, OPENAI_SDK_AVAILABLE,
                   status, diff, backend, calls, requests, commit_message>>

\* git_add_all()
CommitAdd ==
    /\ UNCHANGED <<cfgvars, setupvars>>
    /\ pc = "add"
    /\ \E rc \in {"ok", "exception"} :
          /\ git' = Append(git, GitRun("add", <<>>, rc))
          /\ log' = IF rc = "exception" THEN Append(log, Logged("error", "git add")) ELSE log
          /\ pc' = IF rc = "ok" THEN "diff" ELSE "done"
          /\ result' = IF rc = "ok" THEN result ELSE Exited("1")
    /\ UNCHANGED <<argv, config, AITUNNEL_SUPPORT, OPENAI_SUPPORT, OPENAI_SDK_AVAILABLE,
                   status, diff, backend, calls, requests, commit_message>>

\* diff = get_git_diff()
CommitDiff ==
    /\ UNCHANGED <<cfgvars, setupvars>>
    /\ pc = "diff"
    /\ \E gd \in GitOutputs({<<>>, MkDiff(3)}) :
          /\ git' = Append(git, GitRun("diff", <<>>, gd.kind))
          /\ diff' = gd.text
          /\ log' = IF gd.kind = "exception" THEN Append(log, Logged("error", "git diff"))
                    ELSE log
          /\ pc' = IF gd.kind = "ok" THEN "message" ELSE "done"
          /\ result' = IF gd.kind = "ok" THEN result ELSE Exited("1")
    /\ UNCHANGED <<argv, config, AITUNNEL_SUPPORT, OPENAI_SUPPORT, OPENAI_SDK_AVAILABLE,
                   status, backend, calls, requests, commit_message>>

\* CommitMessage asking the adapter even when -m is given
CommitMessage_always_generated ==
    /\ UNCHANGED <<cfgvars, setupvars>>
    /\ pc = "message"
    /\ \E be \in MainOutcomes :
          LET m == dispatch_main(diff, status, config, argv, AITUNNEL_SUPPORT,
                                 OPENAI_SUPPORT, OPENAI_SDK_AVAILABLE, be)
          IN  /\ calls' = calls \o m.calls
              /\ requests' = requests \o m.requests
              /\ log' = log \o m.log
              /\ backend' = IF m.requests # <<>> THEN be ELSE backend
              /\ commit_message' = IF m.result.kind = "return" THEN m.result.value
                                   ELSE commit_message
              /\ pc' = IF m.result.kind = "return" THEN "commit" ELSE "done"
              /\ result' = IF m.result.kind = "return" THEN result ELSE m.result
    /\ UNCHANGED <<argv, config, AITUNNEL_SUPPORT, OPENAI_SUPPORT, OPENAI_SDK_AVAILABLE,
                   status, diff, git>>

\* if args.message: commit_message = args.message; else: the adapter's message
CommitMessage ==
    /\ UNCHANGED <<cfgvars, setupvars>>
    /\ pc = "message"
    /\ \E be \in MainOutcomes :
          LET m == IF argv.message # <<>> THEN Direct(Returned(argv.message), <<>>)
                   ELSE dispatch_main(diff, status, config, argv, AITUNNEL_SUPPORT,
                                      OPENAI_SUPPORT, OPENAI_SDK_AVAILABLE, be)
          IN  /\ calls' = calls \o m.calls
              /\ requests' = requests \o m.requests
              /\ log' = log \o m.log
              /\ backend' = IF m.requests # <<>> THEN be ELSE backend
              /\ commit_message' = IF m.result.kind = "return" THEN m.result.value
                                   ELSE commit_message
              /\ pc' = IF m.result.kind = "return" THEN "commit" ELSE "done"
              /\ result' = IF m.result.kind = "return" THEN result ELSE m.result
    /\ UNCHANGED <<argv, config, AITUNNEL_SUPPORT, OPENAI_SUPPORT, OPENAI_SDK_AVAILABLE,
                   status, diff, git>>

\* git_commit(commit_message): its return value is not read
CommitCommit ==
    /\ UNCHANGED <<cfgvars, setupvars>>
    /\ pc = "commit"
    /\ \E rc \in {"ok", "fail", "exception"} :
          /\ git' = Append(git, GitRun("commit", commit_message, rc))
          /\ log' = Append(log, Logged(IF rc = "ok" THEN "info"
                                       ELSE IF rc = "fail" THEN "warning" ELSE "error",
                                       "git commit"))
          /\ pc' = IF rc = "exception" THEN "done" ELSE "push"
          /\ result' = IF rc = "exception" THEN Exited("1") ELSE result
    /\ UNCHANGED <<argv, config, AITUNNEL_SUPPORT, OPENAI_SUPPORT, OPENAI_SDK_AVAILABLE,
                   status, diff, backend, calls, requests, commit_message>>

\* if not args.commit_only: git_push(args.branch or config['DEFAULT']['branch'])
CommitPush ==
    /\ UNCHANGED <<cfgvars, setupvars>>
    /\ pc = "push"
    /\ pc' = "done"
    /\ IF argv.commit_only
       THEN /\ result' = Finished("committed")
            /\ UNCHANGED <<git, log>>
       ELSE IF argv.branch = <<>> /\ "branch" \notin DOMAIN config
       THEN /\ result' = Raised("KeyError")
            /\ UNCHANGED <<git, log>>
       ELSE \E rc \in {"ok", "fail", "exception"} :
               /\ git' = Append(git, GitRun("push",
                                            IF argv.branch # <<>> THEN argv.branch
                                            ELSE config["branch"], rc))
               /\ log' = Append(log, Logged(IF rc = "ok" THEN "info"
                                            ELSE IF rc = "fail" THEN "warning" ELSE "error",
                                            "git push"))
               /\ result' = IF rc = "exception" THEN Exited("1") ELSE Finished("pushed")
    /\ UNCHANGED <<argv, config, AITUNNEL_SUPPORT, OPENAI_SUPPORT, OPENAI_SDK_AVAILABLE,
                   status, diff, backend, calls, requests, commit_message>>

Next ==
    \/ MainVersion
    \/ MainGetMessage
    \/ MainTest
    \/ CommitStatus
    \/ CommitAdd
    \/ CommitDiff
    \/ CommitMessage
    \/ CommitCommit
    \/ CommitPush

Spec == Init /\ [][Next]_vars

---------------------------------------------------------------------------
(* setup_config called again and again while the file and the environment change *)

\* the setup_config calls of one run
MaxLoads == 2

\* the modification times a file can have
MaxTime == 2

Times == 1..MaxTime

ENV_TOKEN == <<"e", "n", "v">>

CUSTOM_URL == <<"u">>

\* DEFAULT sections of the file: without the aitunnel keys, with them
FileValues ==
    { [api_provider |-> OPENAI, openai_token |-> TOKEN],
      [aitunnel_token |-> TOKEN, aitunnel_base_url |-> AITUNNEL_BASE_URL,
       aitunnel_model |-> GPT_4_1] }

\* os.environ: nothing set, the token set, the token set to "", all three set
Environs ==
    { <<>>,
      [n \in {"AI_TUNNEL"} |-> ENV_TOKEN],
      [n \in {"AI_TUNNEL"} |-> <<>>],
      [n \in {"AI_TUNNEL", "AITUNNEL_BASE_URL", "AITUNNEL_MODEL"} |->
          CASE n = "AI_TUNNEL" -> ENV_TOKEN
            [] n = "AITUNNEL_BASE_URL" -> CUSTOM_URL
            [] n = "AITUNNEL_MODEL" -> CUSTOM_MODEL] }

InitConfig ==
    /\ pc = "config"
    /\ argv = NoArgs
    /\ config = <<>>
    /\ AITUNNEL_SUPPORT = TRUE
    /\ OPENAI_SUPPORT = TRUE
    /\ OPENAI_SDK_AVAILABLE = TRUE
    /\ status = <<>>
    /\ diff = <<>>
    /\ backend = [kind |-> "none", text |-> <<>>]
    /\ calls = <<>>
    /\ requests = <<>>
    /\ log = <<>>
    /\ git = <<>>
    /\ commit_message = <<>>
    /\ result = [kind |-> "none", value |-> <<>>, why |-> ""]
    /\ CONFIG_FILE \in {NoFile} \cup {File(v, 1) : v \in FileValues}
    /\ environ \in Environs
    /\ _config_cache = None
    /\ _config_file_mtime = NoTime
    /\ loads = NoLoads
    /\ frames = <<>>
    /\ stdin = <<>>
    /\ repo = NoRepo

mainvars == <<pc, argv, AITUNNEL_SUPPORT, OPENAI_SUPPORT, OPENAI_SDK_AVAILABLE, status,
              diff, backend, calls, requests, git, commit_message, result, setupvars>>

\* config = setup_config(force_reload)
SetupConfig ==
    /\ pc = "config"
    /\ loads.n < MaxLoads
    /\ \E force_reload \in BOOLEAN, now \in Times, gone1 \in BOOLEAN, gone2 \in BOOLEAN :
          LET r == setup_config(force_reload, CONFIG_FILE, environ, _config_cache,
                                _config_file_mtime, loads.n + 1, now, gone1, gone2)
          IN  /\ config' = r.returned.values
              /\ _config_cache' = r.cache
              /\ _config_file_mtime' = r.mtime
              /\ CONFIG_FILE' = r.file
              /\ log' = r.log
              /\ loads' = [n |-> loads.n + 1,
                            last |-> Load(force_reload, r.found, environ,
                                          _config_cache, _config_file_mtime, r.returned)]
    /\ UNCHANGED <<mainvars, environ>>

\* the file is written from outside; its modification time does not go back
ModifyFile ==
    /\ pc = "config"
    /\ \E v \in FileValues, t \in Times :
          /\ CONFIG_FILE.exists => t >= CONFIG_FILE.mtime
          /\ CONFIG_FILE' = File(v, t)
    /\ UNCHANGED <<mainvars, config, log, environ, _config_cache, _config_file_mtime, loads>>

\* the file is removed from outside
DeleteFile ==
    /\ pc = "config"
    /\ CONFIG_FILE.exists
    /\ CONFIG_FILE' = NoFile
    /\ UNCHANGED <<mainvars, config, log, environ, _config_cache, _config_file_mtime, loads>>

\* the environment changes between two calls
SetEnviron ==
    /\ pc = "config"
    /\ \E e \in Environs : environ' = e
    /\ environ' # environ
    /\ UNCHANGED <<mainvars, config, log, CONFIG_FILE, _config_cache, _config_file_mtime,
                   loads>>

NextConfig == SetupConfig \/ ModifyFile \/ DeleteFile \/ SetEnviron

SpecConfig == InitConfig /\ [][NextConfig]_vars

---------------------------------------------------------------------------
(* main with --setup and --setup-hooks: the prompt, the recursive call of main, *)
(* the self-check                                                               *)

\* the lines the standard input of one run holds
MaxAnswers == 2

\* what the user types at the prompt
Answers == {<<"y">>, <<"Y">>, <<"n">>}

Stdins == UNION {[1..n -> Answers] : n \in 0..MaxAnswers}

\* .git and the prepare-commit-msg script are there or not; no hook is installed yet
Repos == [git_dir : BOOLEAN, src_hook : BOOLEAN, dst_hook : {FALSE}]

\* the configuration files of a --setup run
SetupFiles ==
    { NoFile,
      File(AllTokens(<<>>), 1),
      File(AllTokens(TOKEN), 1),
      File(With(AllTokens(TOKEN), "api_provider", OPENAI), 1) }

\* one activation of main: args = parser.parse_args() and the position reached
Frame(args, at) == [args |-> args, at |-> at]

\* the running activation
Top == frames[Len(frames)]

\* the running activation returns
Pop == SubSeq(frames, 1, Len(frames) - 1)

\* print(...)
Printed(what) == Logged("print", what)

InitSetup ==
    /\ pc = "setup"
    /\ argv \in {[NoArgs EXCEPT !.setup = TRUE],
                 [NoArgs EXCEPT !.setup_hooks = TRUE],
                 [NoArgs EXCEPT !.setup = TRUE, !.setup_hooks = TRUE]}
    /\ config = <<>>
    /\ AITUNNEL_SUPPORT = TRUE
    /\ OPENAI_SUPPORT = TRUE
    /\ OPENAI_SDK_AVAILABLE = TRUE
    /\ status = <<>>
    /\ diff = <<>>
    /\ backend = [kind |-> "none", text |-> <<>>]
    /\ calls = <<>>
    /\ requests = <<>>
    /\ log = <<>>
    /\ git = <<>>
    /\ commit_message = <<>>
    /\ result = [kind |-> "none", value |-> <<>>, why |-> ""]
    /\ CONFIG_FILE \in SetupFiles
    /\ environ \in {<<>>, [n \in {"AI_TUNNEL"} |-> ENV_TOKEN]}
    /\ _config_cache = None
    /\ _config_file_mtime = NoTime
    /\ loads = NoLoads
    \* the process calls main(): args is parsed from sys.argv
    /\ frames = <<Frame(argv, "main")>>
    /\ stdin \in Stdins
    /\ repo \in Repos

\* args = parser.parse_args(); config = setup_config(): main down to its branches.
\* The file is left alone from outside during the run.
EnterMain ==
    LET r == setup_config(FALSE, CONFIG_FILE, environ, _config_cache,
                          _config_file_mtime, loads.n + 1, 1, FALSE, FALSE)
    IN  /\ config' = r.returned.values
        /\ _config_cache' = r.cache
        /\ _config_file_mtime' = r.mtime
        /\ CONFIG_FILE' = r.file
        /\ loads' = [n |-> loads.n + 1,
                      last |-> Load(FALSE, r.found, environ, _config_cache,
                                    _config_file_mtime, r.returned)]
        /\ UNCHANGED environ

\* the activation on top returns to its caller, or the process ends with result how
Return(how) ==
    /\ frames' = Pop
    /\ pc' = IF Pop = <<>> THEN "done" ELSE pc
    /\ result' = IF Pop = <<>> THEN how ELSE result

\* if args.setup_hooks: copy prepare-commit-msg into .git/hooks; return.
\* raises: the file operation that raises, caught by except Exception
MainSetupHooks ==
    /\ pc = "setup"
    /\ Top.at = "main"
    /\ ~Top.args.version /\ ~Top.args.get_message /\ ~Top.args.test
    /\ Top.args.setup_hooks
    /\ EnterMain
    /\ \E raises \in {"none", "mkdir", "copy"} :
          LET outcome == IF ~repo.git_dir THEN "no .git"
                         ELSE IF raises = "mkdir" THEN "hook error"
                         ELSE IF ~repo.src_hook THEN "no hook file"
                         ELSE IF raises = "copy" THEN "hook error"
                         ELSE "hook installed"
          IN  /\ repo' = [repo EXCEPT !.dst_hook = @ \/ outcome = "hook installed"]
              /\ log' = Append(log, Printed(outcome))
              /\ Return(Finished(outcome))
    /\ UNCHANGED <<argv, AITUNNEL_SUPPORT, OPENAI_SUPPORT, OPENAI_SDK_AVAILABLE, status,
                   diff, backend, calls, requests, git, commit_message, stdin>>

\* if args.setup: "if not CONFIG_FILE.exists(): setup_config()" (the file is there
\* since config = setup_config()), the instructions are printed, then input() waits
MainSetup ==
    /\ pc = "setup"
    /\ Top.at = "main"
    /\ ~Top.args.version /\ ~Top.args.get_message /\ ~Top.args.test
    /\ ~Top.args.setup_hooks
    /\ Top.args.setup
    /\ EnterMain
    /\ log' = Append(log, Printed("config file created"))
    /\ frames' = [frames EXCEPT ![Len(frames)] = Frame(Top.args, "prompt")]
    /\ UNCHANGED <<pc, argv, AITUNNEL_SUPPORT, OPENAI_SUPPORT, OPENAI_SDK_AVAILABLE,
                   status, diff, backend, calls, requests, git, commit_message, result,
                   stdin, repo>>

\* setup_hooks = input(...).lower() == "y"; if setup_hooks: args.setup_hooks = True;
\* main().  input() raises EOFError at the end of the input; main() parses sys.argv
\* again.
SetupPrompt ==
    /\ pc = "setup"
    /\ Top.at = "prompt"
    /\ IF stdin = <<>>
       THEN /\ frames' = <<>>
            /\ pc' = "done"
            /\ result' = Raised("EOFError")
            /\ UNCHANGED <<stdin, log>>
       ELSE LET setup_hooks == Lower(Head(stdin)) = <<"y">>
                waiting == Frame([Top.args EXCEPT !.setup_hooks = @ \/ setup_hooks],
                                 "check")
            IN  /\ stdin' = Tail(stdin)
                /\ log' = Append(log, Logged("input", IF setup_hooks THEN "y" ELSE "n"))
                /\ frames' = IF setup_hooks
                             THEN Append([frames EXCEPT ![Len(frames)] = waiting],
                                         Frame(argv, "main"))
                             ELSE [frames EXCEPT ![Len(frames)] = waiting]
                /\ UNCHANGED <<pc, result>>
    /\ UNCHANGED <<argv, config, AITUNNEL_SUPPORT, OPENAI_SUPPORT, OPENAI_SDK_AVAILABLE,
                   status, diff, backend, calls, requests, git, commit_message, repo,
                   cfgvars>>

\* the token of the configured provider, as the self-check reads it
SetupToken ==
    LET provider == Get(config, "api_provider", AITUNNEL)
    IN  IF provider = AITUNNEL
        THEN IF Get(config, "aitunnel_token", <<>>) # <<>>
             THEN Get(config, "aitunnel_token", <<>>)
             ELSE Getenv(environ, "AI_TUNNEL")
        ELSE IF provider = HUGGINGFACE THEN Get(config, "huggingface_token", <<>>)
        ELSE IF provider = OPENAI THEN Get(config, "openai_token", <<>>)
        ELSE <<>>

\* the self-check of --setup: with a token, test_message = generate_message_only(config)
\* under try/except Exception, then "setup finished" and return.  sys.exit inside
\* generate_message_only ends the process.
SetupCheck ==
    /\ pc = "setup"
    /\ Top.at = "check"
    /\ IF SetupToken = <<>>
       THEN /\ log' = log \o <<Printed("token not configured"), Printed("setup finished")>>
            /\ Return(Finished("setup finished"))
            /\ UNCHANGED <<status, diff, backend, calls, requests, git, commit_message>>
       ELSE \E gs \in GitOutputs({<<>>, SomeStatus}), gd \in GitOutputs({MkDiff(3)}),
               be \in [kind : {"ok"}, text : {FEAT_CORE}] \cup
                      [kind : {"timeout"}, text : {<<>>}] :
               LET g == generate_message_only(config, Top.args, AITUNNEL_SUPPORT,
                                              OPENAI_SUPPORT, OPENAI_SDK_AVAILABLE,
                                              gs, gd, be)
                   r == g.out.result
                   said == IF r.kind = "raise" THEN "check error"
                           ELSE IF r.value # <<>> /\ r.value # DEFAULT_COMMIT_MESSAGE
                           THEN "message printed"
                           ELSE "not generated"
               IN  /\ status' = g.status
                   /\ diff' = g.diff
                   /\ git' = git \o g.git
                   /\ calls' = calls \o g.out.calls
                   /\ requests' = requests \o g.out.requests
                   /\ backend' = IF g.out.requests # <<>> THEN be ELSE backend
                   /\ commit_message' = IF r.kind = "return" THEN r.value
                                        ELSE commit_message
                   /\ IF r.kind = "exit"
                      THEN /\ log' = log \o g.out.log
                           /\ frames' = <<>>
                           /\ pc' = "done"
                           /\ result' = r
                      ELSE /\ log' = log \o g.out.log
                                         \o <<Printed(said), Printed("setup finished")>>
                           /\ Return(Finished("setup finished"))
    /\ UNCHANGED <<argv, config, AITUNNEL_SUPPORT, OPENAI_SUPPORT, OPENAI_SDK_AVAILABLE,
                   stdin, repo, cfgvars>>

NextSetup == MainSetupHooks \/ MainSetup \/ SetupPrompt \/ SetupCheck

SpecSetup == InitSetup /\ [][NextSetup]_vars

---------------------------------------------------------------------------
(* The claims about the message extraction (SpecExtract) *)

\* feat, fix, docs, style, refactor, test, chore, as the claims list them
TypePrefixes ==
    { <<"f", "e", "a", "t">>, <<"f", "i", "x">>, <<"d", "o", "c", "s">>,
      <<"s", "t", "y", "l", "e">>, <<"r", "e", "f", "a", "c", "t", "o", "r">>,
      <<"t", "e", "s", "t">>, <<"c", "h", "o", "r", "e">> }

Trim(s) ==
    LET ink == {i \in 1..Len(s) : ~IsSpace(s[i])}
    IN  IF ink = {} THEN <<>> ELSE SubSeq(s, Min(ink), CHOOSE i \in ink : \A j \in ink : j <= i)

LinesOf(t) == Split(t, NL)

IsTyped(line) == \E p \in TypePrefixes : Len(line) >= Len(p) /\ SubSeq(line, 1, Len(p)) = p

IsFenced(line) == Len(line) >= 3 /\ \A i \in 1..3 : line[i] = BACKTICK

\* the lines of t that start with a type prefix once stripped
TypedLines(t) == {i \in 1..Len(LinesOf(t)) : IsTyped(Trim(LinesOf(t)[i]))}

\* the lines of t that are non-empty once stripped and are no code fence
PlainLines(t) ==
    {i \in 1..Len(LinesOf(t)) : Trim(LinesOf(t)[i]) # <<>> /\ ~IsFenced(Trim(LinesOf(t)[i]))}

FirstOf(t, S) == Trim(LinesOf(t)[Min(S)])

\* the response text with every "</s>" marker taken out
Unmarked(t) == Replace(t, EOS, <<>>)

\* a direct call of one adapter has returned a message extracted from a response
Extracted(name) ==
    pc = "done" /\ calls = <<name>> /\ backend.kind = "ok" /\ result.kind = "return"

\* the text an adapter extracts from: the response text, and for the Hugging Face
\* adapter the response text without its "</s>" markers
ReadText == IF calls = <<"huggingface">> THEN Unmarked(backend.text) ELSE backend.text

\* C1 as stated: whenever a line of the raw response text starts with a type prefix
\* once stripped, every adapter returns the first such line, stripped.
C1_FirstTypedLineOfRawText ==
    \A name \in {"aitunnel", "openai", "huggingface"} :
        (Extracted(name) /\ TypedLines(backend.text) # {})
            => result.value = FirstOf(backend.text, TypedLines(backend.text))

\* C1 amended: the aitunnel and openai adapters return the first line of the raw
\* response text that starts with a type prefix once stripped; the Hugging Face
\* adapter returns the first such line of the response text with its "</s>" markers
\* removed.
C1_FirstTypedLine ==
    \A name \in {"aitunnel", "openai", "huggingface"} :
        (Extracted(name) /\ TypedLines(ReadText) # {})
            => result.value = FirstOf(ReadText, TypedLines(ReadText))

\* C1: an adapter returned the typed third line of a text whose first line is a code
\* fence and whose second line is blank
C1_Witness ==
    /\ Extracted("huggingface")
    /\ Len(LinesOf(backend.text)) = 3
    /\ IsFenced(Trim(LinesOf(backend.text)[1]))
    /\ Trim(LinesOf(backend.text)[2]) = <<>>
    /\ TypedLines(backend.text) = {3}
    /\ result.value = <<"f", "e", "a", "t">>

\* C2, read with the Hugging Face text taken without its "</s>" markers: when no line
\* starts with a type prefix and some line is non-empty and no code fence, every adapter
\* returns the first such line, stripped.
C2_FirstPlainLine ==
    \A name \in {"aitunnel", "openai", "huggingface"} :
        (Extracted(name) /\ TypedLines(ReadText) = {} /\ PlainLines(ReadText) # {})
            => result.value = FirstOf(ReadText, PlainLines(ReadText))

\* C3 as stated: when every line of the raw response text is empty once stripped or
\* starts with a code fence, every adapter returns the whole trimmed text (the empty
\* string for an empty or whitespace-only text).
C3_WholeTextFromEveryAdapter ==
    \A name \in {"aitunnel", "openai", "huggingface"} :
        (Extracted(name) /\ TypedLines(backend.text) = {} /\ PlainLines(backend.text) = {})
            => result.value = Trim(backend.text)

\* C3 amended: in that case the aitunnel and openai adapters return the whole trimmed
\* text; the Hugging Face adapter, when its text (markers removed) is empty or
\* whitespace-only, returns the fixed fallback message.
C3_WholeTextOrFallback ==
    /\ \A name \in {"aitunnel", "openai"} :
        (Extracted(name) /\ TypedLines(backend.text) = {} /\ PlainLines(backend.text) = {})
            => result.value = Trim(backend.text)
    /\ (Extracted("huggingface") /\ Trim(ReadText) = <<>>)
            => result.value = DEFAULT_COMMIT_MESSAGE

\* C3: the aitunnel adapter returned a whole text of two code-fence lines
C3_Witness ==
    /\ Extracted("aitunnel")
    /\ Len(LinesOf(Trim(backend.text))) = 2
    /\ \A i \in 1..2 : IsFenced(Trim(LinesOf(Trim(backend.text))[i]))
    /\ result.value = Trim(backend.text)

---------------------------------------------------------------------------
(* The claims about one adapter call (SpecAdapter) *)

TokenKey(name) ==
    CASE name = "aitunnel" -> "aitunnel_token"
      [] name = "openai" -> "openai_token"
      [] name = "huggingface" -> "huggingface_token"

\* a direct call of adapter name has ended
Called(name) == pc = "done" /\ calls = <<name>>

\* C4: whenever an adapter's token is missing or empty, the call returns exactly
\* "chore: automatic changes commit" and sends no request.
C4_MissingTokenFallback ==
    \A name \in {"aitunnel", "openai", "huggingface"} :
        (Called(name) /\ Get(config, TokenKey(name), <<>>) = <<>>)
            => /\ result.kind = "return"
               /\ result.value = DEFAULT_COMMIT_MESSAGE
               /\ requests = <<>>

\* max_diff_size as the configuration gives it, '5000' when the key is absent
Limit == PyInt(Get(config, "max_diff_size", <<"5", "0", "0", "0">>))

\* adapter name has sent its request for a diff longer than a non-negative limit
SentOverLimit(name) ==
    /\ Called(name)
    /\ Len(requests) = 1
    /\ Limit.ok /\ Limit.val >= 0
    /\ Len(diff) > Limit.val

\* the first max_diff_size characters of the diff, then the truncation marker
Cut == SubSeq(diff, 1, Limit.val) \o TRUNCATED

\* C5 as stated: whenever len(diff) > max_diff_size, the diff text in the request of
\* every adapter is exactly the first max_diff_size characters of the diff followed by
\* the truncation marker, and is not the full original diff.
C5_TruncatedDiffInEveryRequest ==
    \A name \in {"aitunnel", "openai", "huggingface"} :
        SentOverLimit(name)
            => /\ requests[1].diff = Cut
               /\ requests[1].diff # diff

\* C5 amended: whenever len(diff) > max_diff_size, the aitunnel and openai adapters
\* embed exactly the first max_diff_size characters of the diff followed by the
\* marker, which is the full original diff only when the diff's own characters past
\* max_diff_size are the marker; the Hugging Face adapter embeds only the first 500
\* characters of that truncated text.
C5_TruncatedDiff ==
    /\ \A name \in {"aitunnel", "openai"} :
        SentOverLimit(name)
            => /\ requests[1].diff = Cut
               /\ requests[1].diff = diff
                     => SubSeq(diff, Limit.val + 1, Len(diff)) = TRUNCATED
    /\ SentOverLimit("huggingface")
            => requests[1].diff = SubSeq(Cut, 1, IF Len(Cut) < 500 THEN Len(Cut) ELSE 500)

\* C5: the Hugging Face adapter sent 500 characters of a 520-character diff cut at 510
C5_Witness ==
    /\ SentOverLimit("huggingface")
    /\ Len(diff) = 520
    /\ Limit.val = 510
    /\ Len(requests[1].diff) = 500

\* main ran generate_message_only (--get-message or --test) and it is over
MessageOnlyDone ==
    pc = "done" /\ ~argv.version /\ (argv.get_message \/ argv.test) /\ git # <<>>

\* get_git_status returned the empty string to generate_message_only
EmptyStatus == MessageOnlyDone /\ git[1].rc = "ok" /\ status = <<>>

\* get_git_status returned text and get_git_diff the empty string
EmptyDiff ==
    /\ MessageOnlyDone
    /\ Len(git) = 2
    /\ git[2].rc = "ok"
    /\ status # <<>>
    /\ diff = <<>>

\* C6: generate_message_only returns "chore: automatic changes commit" and invokes
\* no adapter whenever the git status is empty, and whenever the status is not empty
\* but the diff is, whatever the provider and the tokens.
C6_NoChangesNoAdapter ==
    (EmptyStatus \/ EmptyDiff) =>
        /\ calls = <<>>
        /\ requests = <<>>
        /\ commit_message = DEFAULT_COMMIT_MESSAGE

C6_Witness ==
    /\ EmptyDiff
    /\ "api_provider" \in DOMAIN config
    /\ config["api_provider"] = OPENAI
    /\ config["openai_token"] = TOKEN
    /\ OPENAI_SUPPORT
    /\ calls = <<>>
    /\ commit_message = DEFAULT_COMMIT_MESSAGE

\* the provider name a dispatch site reads: -p if given (commit flow only), else the
\* api_provider key, else "aitunnel"
Provider ==
    IF CommitFlow /\ argv.provider # <<>> THEN argv.provider
    ELSE Get(config, "api_provider", AITUNNEL)

\* one of the two dispatch sites has chosen an adapter and called it
Dispatched ==
    \/ /\ MessageOnlyDone
       /\ Len(git) = 2
       /\ git[2].rc = "ok"
       /\ status # <<>>
       /\ diff # <<>>
    \/ /\ CommitFlow
       /\ argv.message = <<>>
       /\ pc \in {"commit", "push", "done"}
       /\ Len(git) >= 3
       /\ git[3].rc = "ok"

\* the provider read is openai or aitunnel and its support module is not there
Unavailable ==
    \/ Lower(Provider) = OPENAI /\ ~OPENAI_SUPPORT
    \/ Lower(Provider) = AITUNNEL /\ ~AITUNNEL_SUPPORT

\* C7: at both dispatch sites, when the provider is openai or aitunnel and its support
\* module is unavailable, a warning is logged, the Hugging Face adapter is the one
\* invoked, and the unavailable adapter is not invoked.
C7_UnavailableFallsBackToHuggingFace ==
    (Dispatched /\ Unavailable) =>
        /\ calls = <<"huggingface">>
        /\ \E i \in 1..Len(log) :
              /\ log[i].level = "warning"
              /\ log[i].what = (IF Lower(Provider) = AITUNNEL THEN "aitunnel not installed"
                                ELSE "openai not installed")

C7_Witness ==
    /\ Dispatched
    /\ CommitFlow
    /\ Provider = <<"O", "p", "e", "n", "A", "I">>
    /\ ~OPENAI_SUPPORT
    /\ AITUNNEL_SUPPORT
    /\ calls = <<"huggingface">>
    /\ Logged("warning", "openai not installed") \in {log[i] : i \in 1..Len(log)}

\* the adapter the provider name read at the site stands for, when it can be used
NamedAdapter ==
    IF Lower(Provider) = AITUNNEL /\ AITUNNEL_SUPPORT THEN <<"aitunnel">>
    ELSE IF Lower(Provider) = OPENAI /\ OPENAI_SUPPORT THEN <<"openai">>
    ELSE IF Lower(Provider) = HUGGINGFACE THEN <<"huggingface">>
    ELSE <<>>

\* C8 as stated: a dispatch invokes exactly one adapter, the one the provider name
\* stands for in any letter case when it is available, and the aitunnel adapter
\* whenever the api_provider key is absent.
C8_AbsentProviderSelectsAitunnel ==
    Dispatched =>
        /\ Len(calls) = 1
        /\ NamedAdapter # <<>> => calls = NamedAdapter
        /\ "api_provider" \notin DOMAIN config => calls = <<"aitunnel">>

\* C8, amended: a dispatch invokes exactly one adapter, the one the provider name
\* stands for in any letter case when it is available; when the api_provider key is
\* absent and -p does not name a provider in the commit flow, the name is "aitunnel":
\* the aitunnel adapter is invoked if its module is available, the Hugging Face one
\* if not.
C8_CaseInsensitiveProvider ==
    Dispatched =>
        /\ Len(calls) = 1
        /\ NamedAdapter # <<>> => calls = NamedAdapter
        /\ ("api_provider" \notin DOMAIN config /\ ~(CommitFlow /\ argv.provider # <<>>)) =>
              calls = (IF AITUNNEL_SUPPORT THEN <<"aitunnel">> ELSE <<"huggingface">>)

C8_Witness ==
    /\ Dispatched
    /\ CommitFlow
    /\ argv.provider = <<>>
    /\ "api_provider" \in DOMAIN config
    /\ config["api_provider"] = <<"A", "I", "T", "u", "n", "n", "e", "l">>
    /\ AITUNNEL_SUPPORT
    /\ calls = <<"aitunnel">>

\* the Message Normalizer of spec section 4.1
normalize(raw_text) ==
    IF TypedLines(raw_text) # {} THEN FirstOf(raw_text, TypedLines(raw_text))
    ELSE IF PlainLines(raw_text) # {} THEN FirstOf(raw_text, PlainLines(raw_text))
    ELSE Trim(raw_text)

\* C9, read with the Hugging Face text taken without its "</s>" markers and for texts
\* with a non-blank line: with a token configured and a backend that returns text t,
\* every adapter returns normalize(t).
C9_AdapterReturnsNormalized ==
    \A name \in {"aitunnel", "openai", "huggingface"} :
        (Extracted(name) /\ Trim(ReadText) # <<>>) => result.value = normalize(ReadText)

\* C10: every adapter call returns a string, whatever the configuration and the
\* backend outcome, and on a failure the string is the fixed fallback message.
C10_AdapterAlwaysReturns ==
    pc = "done"
        => /\ result.kind = "return"
           /\ (Len(requests) = 1 /\ backend.kind \in FailureKinds)
                 => result.value = DEFAULT_COMMIT_MESSAGE

---------------------------------------------------------------------------
(* The single line (SpecExtract) *)

HasLineBreak(s) == \E i \in 1..Len(s) : s[i] = NL

\* C11 as stated: for every raw response text, the message an adapter's extraction
\* returns contains no line break.
C11_SingleLineAlways ==
    \A name \in {"aitunnel", "openai", "huggingface"} :
        Extracted(name) => ~HasLineBreak(result.value)

\* C11 amended: the message returned contains no line break whenever some line of the
\* text is typed, or non-empty and no code fence, once stripped, and always for the
\* Hugging Face adapter; otherwise the aitunnel and openai adapters return the whole
\* trimmed text with the line breaks it has.
C11_SingleLine ==
    /\ \A name \in {"aitunnel", "openai"} :
        Extracted(name) =>
            IF TypedLines(backend.text) # {} \/ PlainLines(backend.text) # {}
            THEN ~HasLineBreak(result.value)
            ELSE HasLineBreak(result.value) = HasLineBreak(Trim(backend.text))
    /\ Extracted("huggingface") => ~HasLineBreak(result.value)

\* C11: the openai adapter returned one line of a text of three lines, none typed
C11_Witness ==
    /\ Extracted("openai")
    /\ Len(LinesOf(Trim(backend.text))) = 3
    /\ TypedLines(backend.text) = {}
    /\ PlainLines(backend.text) # {}
    /\ result.value # <<>>
    /\ ~HasLineBreak(result.value)

---------------------------------------------------------------------------
(* The commit flow of main (Spec) *)

\* the commands of the trace that did not succeed
Failed == {i \in 1..Len(git) : git[i].rc # "ok"}

\* C12: in the commit flow, a version-control command that fails is the last one the
\* invocation runs; in particular no git push follows a failed git commit.
C12_GitFailureAborts ==
    CommitFlow => \A i \in Failed : i = Len(git)

\* the commands run so far, by name
Commands == [i \in 1..Len(git) |-> git[i].cmd]

\* the steps of the commit flow that run a version-control command
ORDER == <<"status", "add", "diff", "commit", "push">>

\* C13: a run of the commit flow with a non-empty status runs its commands in the order
\* stage all, get diff, commit, push; the message is obtained (given with -m, or from
\* one adapter call) after the diff and before the commit, and it is the one committed.
C13_FixedOrder ==
    CommitFlow =>
        /\ Len(git) <= Len(ORDER)
        /\ Commands = SubSeq(ORDER, 1, Len(git))
        /\ Len(git) >= 2 => status # <<>>
        /\ Len(calls) <= 1
        /\ calls # <<>> => (Len(git) >= 3 /\ argv.message = <<>>)
        /\ Len(git) >= 4 =>
              /\ calls # <<>> \/ argv.message # <<>>
              /\ \A i \in 1..3 : git[i].rc = "ok"
              /\ git[4].arg = commit_message

C13_Witness ==
    /\ CommitFlow
    /\ pc = "done"
    /\ Commands = ORDER
    /\ calls = <<"openai">>
    /\ commit_message = FEAT_CORE
    /\ git[4].arg = FEAT_CORE
    /\ result = Finished("pushed")

---------------------------------------------------------------------------
(* setup_config (SpecConfig) *)

\* the last setup_config call
LastLoad == loads.last

\* the last call was made without force_reload, with a configuration cached and the
\* file there with the modification time recorded
CacheFresh ==
    /\ loads.n > 0
    /\ ~LastLoad.force_reload
    /\ LastLoad.cache # None
    /\ LastLoad.file.exists
    /\ LastLoad.file.mtime = LastLoad.mtime

\* the last call was made with force_reload, or with a configuration cached and the
\* file there with another modification time than the one recorded
CacheStale ==
    /\ loads.n > 0
    /\ \/ LastLoad.force_reload
       \/ /\ LastLoad.cache # None
          /\ LastLoad.file.exists
          /\ LastLoad.file.mtime # LastLoad.mtime

\* what reading the file the call found gives: its values (the defaults written when
\* it was not there) under the environment's overrides
ReadFromFile ==
    Override(IF LastLoad.file.exists THEN LastLoad.file.values ELSE DEFAULT_CONFIG,
             LastLoad.environ)

\* C14: the cache holds the object the previous call returned; a call without
\* force_reload made while the file's modification time is the recorded one returns
\* that very object; a call made with force_reload or after the modification time
\* changed returns a new object read from the file as it is now.
C14_CacheByModificationTime ==
    /\ loads.n > 0 => _config_cache = LastLoad.returned
    /\ CacheFresh => LastLoad.returned = LastLoad.cache
    /\ CacheStale =>
          /\ LastLoad.returned.id = loads.n
          /\ LastLoad.returned.id # LastLoad.cache.id
          /\ LastLoad.returned.values = ReadFromFile

\* C14: the first call read the file, the second returned the object of the first
C14_Witness ==
    /\ loads.n = 2
    /\ CacheFresh
    /\ LastLoad.returned.id = 1
    /\ LastLoad.returned.values = LastLoad.file.values
    /\ LastLoad.file.mtime = 2
    /\ config = LastLoad.file.values

\* C15: in the configuration a setup_config call returns, each of aitunnel_token,
\* aitunnel_base_url and aitunnel_model whose environment variable (AI_TUNNEL,
\* AITUNNEL_BASE_URL, AITUNNEL_MODEL) is set non-empty at the call has that variable's
\* value.
C15_EnvironmentOverrides ==
    loads.n > 0 =>
        \A k \in ENV_KEYS :
            Getenv(LastLoad.environ, EnvName(k)) # <<>> =>
                /\ k \in DOMAIN LastLoad.returned.values
                /\ LastLoad.returned.values[k] = LastLoad.environ[EnvName(k)]

BRANCH_MASTER == <<"m", "a", "s", "t", "e", "r">>

SIZE_7000 == <<"7", "0", "0", "0">>

\* the last call was the first of the process, found no file, and no override was set
\* in the environment
FirstLoadWithoutFile ==
    /\ loads.n > 0
    /\ LastLoad.cache = None
    /\ ~LastLoad.file.exists
    /\ \A k \in ENV_KEYS : Getenv(LastLoad.environ, EnvName(k)) = <<>>

\* C16: when the config file does not exist and no environment override is set,
\* setup_config returns a configuration with api_provider = aitunnel, branch = master
\* and max_diff_size = 7000.
C16_NewFileDefaults ==
    FirstLoadWithoutFile =>
        /\ {"api_provider", "branch", "max_diff_size"} \subseteq DOMAIN LastLoad.returned.values
        /\ LastLoad.returned.values["api_provider"] = AITUNNEL
        /\ LastLoad.returned.values["branch"] = BRANCH_MASTER
        /\ LastLoad.returned.values["max_diff_size"] = SIZE_7000

---------------------------------------------------------------------------
(* The keys main and the adapters read (Spec) *)

\* the configuration keys the program reads
READ_KEYS ==
    {"api_provider", "aitunnel_token", "openai_token", "huggingface_token",
     "aitunnel_base_url", "aitunnel_model", "max_diff_size", "branch"}

\* C17: on every command path (commit flow with push, --test, --get-message) the read
\* of a key that is absent from the loaded configuration does not fail: the run never
\* ends with a KeyError.
C17_AbsentKeyReadsDefault ==
    (\E k \in READ_KEYS : k \notin DOMAIN config) => result # Raised("KeyError")

\* the commit flow, without -m, is past its message step with the diff it got
MessageStepDone ==
    /\ CommitFlow
    /\ argv.message = <<>>
    /\ pc \in {"commit", "push", "done"}
    /\ Len(git) >= 3
    /\ git[3].rc = "ok"

\* C18: in the commit flow without -m, when the status is non-empty and the diff
\* obtained after staging is empty, no adapter is invoked and the message is
\* "chore: automatic changes commit".
C18_EmptyDiffNoAdapter ==
    (MessageStepDone /\ status # <<>> /\ diff = <<>>) =>
        /\ calls = <<>>
        /\ requests = <<>>
        /\ commit_message = DEFAULT_COMMIT_MESSAGE

---------------------------------------------------------------------------
(* The model identifier of a request (SpecAdapter) *)

ModelKey(name) ==
    CASE name = "aitunnel" -> "aitunnel_model"
      [] name = "openai" -> "openai_model"
      [] name = "huggingface" -> "huggingface_model"

\* the model identifiers an adapter uses when none is configured
DefaultModels(name) ==
    CASE name = "aitunnel" -> {GPT_4_1}
      [] name = "openai" -> {GPT_4O_MINI, GPT_3_5_TURBO}
      [] name = "huggingface" -> {MIXTRAL}

\* C19: the request of each adapter names the model of the provider's <provider>_model
\* key whenever the key is set, and the provider's default when it is absent.
C19_ConfiguredModel ==
    \A name \in {"aitunnel", "openai", "huggingface"} :
        (Called(name) /\ requests # <<>>) =>
            IF ModelKey(name) \in DOMAIN config
            THEN requests[1].model = config[ModelKey(name)]
            ELSE requests[1].model \in DefaultModels(name)

---------------------------------------------------------------------------
(* The message given with -m (Spec) *)

\* C20: in the commit flow with -m/--message, no adapter is invoked and no request is
\* sent, and the message git commit is run with is the one given, whatever the
\* provider.
C20_CustomMessageNoAdapter ==
    (CommitFlow /\ argv.message # <<>>) =>
        /\ calls = <<>>
        /\ requests = <<>>
        /\ pc \in {"commit", "push"} => commit_message = argv.message
        /\ Len(git) >= 4 => (git[4].cmd = "commit" /\ git[4].arg = argv.message)

C20_Witness ==
    /\ CommitFlow
    /\ argv.message = CUSTOM_MESSAGE
    /\ argv.provider = HUGGINGFACE
    /\ "api_provider" \in DOMAIN config
    /\ config["api_provider"] = OPENAI
    /\ config["openai_token"] = TOKEN
    /\ Len(git) = 5
    /\ git[4] = GitRun("commit", CUSTOM_MESSAGE, "ok")
    /\ calls = <<>>

---------------------------------------------------------------------------
(* The push step (Spec) *)

\* the positions of git push in the trace of commands
Pushes == {i \in 1..Len(git) : git[i].cmd = "push"}

\* the commit flow is over and its commit step ran git commit to its end
CommitStepDone ==
    /\ CommitFlow
    /\ pc = "done"
    /\ Len(git) >= 4
    /\ git[4].cmd = "commit"
    /\ git[4].rc # "exception"

\* C21: in the commit flow git push is never run with --commit-only; without it, push
\* is run exactly once, after the commit step, to the branch of -b/--branch if given
\* and to the configured branch otherwise.
C21_PushOnceToBranch ==
    /\ (CommitFlow /\ argv.commit_only) => Pushes = {}
    /\ (CommitStepDone /\ ~argv.commit_only) =>
          /\ Pushes = {5}
          /\ git[5].arg = (IF argv.branch # <<>> THEN argv.branch
                           ELSE Get(config, "branch", BRANCH_MAIN))

---------------------------------------------------------------------------
(* The hooks prompt of --setup (SpecSetup) *)

\* the user answered yes at a hooks prompt
AnsweredYes == \E i \in 1..Len(log) : log[i] = Logged("input", "y")

\* a recursive call of main is running
Recursive == Len(frames) >= 2

\* C22: in --setup mode, after the answer 'y' at the hooks prompt the recursive call
\* of main takes the hook-installation branch and returns (it never comes to the
\* prompt itself), and the run goes on to its self-check and ends; with .git and the
\* hook script there and no file operation failing, the hook is then installed.
C22_RecursiveCallInstallsHook ==
    /\ Recursive => Top.at = "main"
    /\ (pc = "done" /\ AnsweredYes) =>
          /\ result.kind # "raise"
          /\ (repo.git_dir /\ repo.src_hook
                 /\ \A i \in 1..Len(log) : log[i] # Printed("hook error"))
                => repo.dst_hook

---------------------------------------------------------------------------
(* The extraction applied to its own result (SpecExtract) *)

\* C23: the message extraction of the aitunnel and openai adapters is idempotent: the
\* message an adapter returned for a response text is what the same extraction yields
\* when it is given that message as the response text.
C23_ExtractionIdempotent ==
    /\ Extracted("aitunnel") =>
          /\ result.value = extract_aitunnel(backend.text)
          /\ extract_aitunnel(result.value) = result.value
    /\ Extracted("openai") =>
          /\ result.value = extract_openai(backend.text)
          /\ extract_openai(result.value) = result.value

\* the aitunnel adapter took the second of three lines, a plain line with blanks
\* around it after a code fence, and the extraction leaves its result as it is
C23_Witness ==
    /\ Extracted("aitunnel")
    /\ Len(LinesOf(backend.text)) = 3
    /\ IsFenced(Trim(LinesOf(backend.text)[1]))
    /\ LinesOf(backend.text)[2] = <<" ", "a", "\r">>
    /\ result.value = <<"a">>
    /\ result.value # Trim(backend.text)
    /\ extract_aitunnel(result.value) = <<"a">>

---------------------------------------------------------------------------
(* The message given to git commit (Spec) *)

\* the commit flow generates its message: no -m/--message
Generated == CommitFlow /\ argv.message = <<>>

\* C24: in the commit flow with AI generation, the message passed to git commit is
\* never the empty string, whatever the backend answers and whichever provider is
\* selected.
C24_CommitMessageNotEmpty ==
    Generated => \A i \in 1..Len(git) : git[i].cmd = "commit" => git[i].arg # <<>>

---------------------------------------------------------------------------
(* The two dispatch sites compared (Spec) *)

\* a --get-message or --test run whose generate_message_only invoked an adapter
MessageOnlyInvoked ==
    /\ ~argv.version
    /\ argv.get_message \/ argv.test
    /\ pc = "done"
    /\ calls # <<>>

\* the adapter the commit flow of main invokes for the same diff, status,
\* configuration, command line and support modules
MainWouldInvoke ==
    dispatch_main(diff, status, config, argv, AITUNNEL_SUPPORT, OPENAI_SUPPORT,
                  OPENAI_SDK_AVAILABLE, backend).calls

\* C25: for every configuration and every value of -p/--provider, the adapter
\* generate_message_only invokes under --get-message and --test is the adapter the
\* commit flow of main invokes.
C25_SameAdapterAtBothSites == MessageOnlyInvoked => calls = MainWouldInvoke

============================================================================
